---- MODULE Spec2Model ----
(***************************************************************************)
(* Model of the varuint crate: the variable length integer codec of        *)
(* src/src/read_write.rs and its Varint<T> wrapper (src/src/ser_deser.rs).  *)
(*                                                                         *)
(* An integer of N bits is the sequence of its N/8 bytes, least            *)
(* significant byte first: the value's memory image on a little-endian     *)
(* target, which is what ptr::copy_nonoverlapping copies.  A signed        *)
(* integer is its two's complement image.  All arithmetic of the code is   *)
(* done on these images, so 64 and 128 bit values keep their full width.   *)
(***************************************************************************)
EXTENDS Integers, Sequences, FiniteSets, TLC

\* ------------------------------------------------------------------------
\* Fixed-width integers as byte images
\* ------------------------------------------------------------------------

Byte == 0..255

\* mem::size_of::<T>() of the ten integer types the traits are implemented for
SizeOf(ty) ==
    CASE ty \in {"u8", "i8"} -> 1
      [] ty \in {"u16", "i16"} -> 2
      [] ty \in {"u32", "i32"} -> 4
      [] ty \in {"u64", "i64"} -> 8
      [] ty \in {"u128", "i128"} -> 16

UnsignedTypes == {"u8", "u16", "u32", "u64", "u128"}

SignedTypes == {"i8", "i16", "i32", "i64", "i128"}

Types == UnsignedTypes \cup SignedTypes

\* byte i (1-based, least significant first) of an image, 0 beyond its end
Dig(a, i) == IF i <= Len(a) THEN a[i] ELSE 0

Max2(x, y) == IF x >= y THEN x ELSE y

Min2(x, y) == IF x <= y THEN x ELSE y

\* an integer literal below 2^24 as a 3-byte image
Lit(x) == <<x % 256, (x \div 256) % 256, (x \div 65536) % 256>>

\* the literal 2^(8k) - 1 (4_294_967_295 is Ones(4), u64::MAX is Ones(8))
Ones(k) == [i \in 1..k |-> 255]

\* zero-extension (u64::from, u128::from, `as u128`) or truncation (`as u8`)
\* of an image to n bytes
Resize(a, n) == [i \in 1..n |-> Dig(a, i)]

RECURSIVE LeFrom(_, _, _)
LeFrom(a, b, i) ==
    IF i = 0 THEN TRUE
    ELSE IF Dig(a, i) < Dig(b, i) THEN TRUE
    ELSE IF Dig(a, i) > Dig(b, i) THEN FALSE
    ELSE LeFrom(a, b, i - 1)

\* a <= b on unsigned images
Le(a, b) == LeFrom(a, b, Max2(Len(a), Len(b)))

\* the borrow into byte i of a - b
RECURSIVE Borrow(_, _, _)
Borrow(a, b, i) ==
    IF i = 1 THEN 0
    ELSE IF Dig(a, i - 1) - Dig(b, i - 1) - Borrow(a, b, i - 1) < 0 THEN 1 ELSE 0

\* a - b at the width of a, wrapping (the release build's result)
WrappingSub(a, b) ==
    [i \in 1..Len(a) |-> (256 + Dig(a, i) - Dig(b, i) - Borrow(a, b, i)) % 256]

\* a - b overflows (the debug build panics: "attempt to subtract with overflow")
SubOverflows(a, b) == ~Le(b, a)

\* a / 256 at the width of a
Div256(a) == [i \in 1..Len(a) |-> Dig(a, i + 1)]

\* an integer below 2^24 as an n-byte image, wrapping to the width
FromNat(x, n) == Resize(Lit(x), n)

\* ------------------------------------------------------------------------
\* State
\* ------------------------------------------------------------------------

VARIABLES
    data,             \* the bytes of the sink / source (Vec<u8> or [u8; N])
    pos,              \* the cursor's position in data
    sink,             \* "vec": Cursor<Vec<u8>>, "slice": &mut [u8] / &[u8]
    overflow_checks,  \* the build: TRUE debug (overflow panics), FALSE release (wraps)
    api,              \* "trait": write_varint / read_varint, "wrapper": Varint<T>
    log,              \* the calls made so far, oldest first
    frames            \* per thread, the call it is in: its arguments, locals,
                      \* its own sink or source, and its result (concurrent
                      \* harness only; the other harnesses run one thread)

vars == <<data, pos, sink, overflow_checks, api, log, frames>>

\* a byte of a mem::uninitialized() buffer that was never assigned
Uninit == 256

\* a stack buffer [u8; n] = mem::uninitialized() after buf[0..] = bytes
Buffer(n, bytes) == [i \in 1..n |-> IF i <= Len(bytes) THEN bytes[i] ELSE Uninit]

\* the call does not return: unreachable!(), arithmetic overflow in a debug
\* build, or a slice index out of range
Panicked == [kind |-> "Panic", bytes |-> <<>>]

\* the whole buffer handed to Write::write, the range dropped
SliceWholeBuffer(buf, size) == [kind |-> "Ok", bytes |-> buf]

\* &buf[0..size] handed to Write::write
Slice(buf, size) ==
    IF size > Len(buf) THEN Panicked
    ELSE [kind |-> "Ok", bytes |-> SubSeq(buf, 1, size)]

\* a subtraction that panics in this build
SubPanics(a, b) == overflow_checks /\ SubOverflows(a, b)

\* ------------------------------------------------------------------------
\* VarintSizeHint
\* ------------------------------------------------------------------------

\* the u8 calculator with a digit of its threshold lost
varint_size_u8_low_threshold(v) ==
    IF Le(v, Lit(24)) THEN 1
    ELSE 2

varint_size_u8(v) ==
    IF Le(v, Lit(240)) THEN 1
    ELSE 2

varint_size_u16(v) ==
    IF Le(v, Lit(240)) THEN 1
    ELSE IF Le(v, Lit(2031)) THEN 2
    ELSE 3

\* the u32 calculator with the results of its last two arms exchanged
varint_size_u32_swapped_results(v) ==
    IF Le(v, Lit(240)) THEN 1
    ELSE IF Le(v, Lit(2031)) THEN 2
    ELSE IF Le(v, Lit(67567)) THEN 3
    ELSE IF Le(v, Lit(16777215)) THEN 5
    ELSE 4

varint_size_u32(v) ==
    IF Le(v, Lit(240)) THEN 1
    ELSE IF Le(v, Lit(2031)) THEN 2
    ELSE IF Le(v, Lit(67567)) THEN 3
    ELSE IF Le(v, Lit(16777215)) THEN 4
    ELSE 5

\* the u64 calculator with the second threshold one too high
varint_size_u64_off_by_one(v) ==
    IF Le(v, Lit(240)) THEN 1
    ELSE IF Le(v, Lit(2032)) THEN 2
    ELSE IF Le(v, Lit(67567)) THEN 3
    ELSE IF Le(v, Lit(16777215)) THEN 4
    ELSE IF Le(v, Ones(4)) THEN 5
    ELSE IF Le(v, Ones(5)) THEN 6
    ELSE IF Le(v, Ones(6)) THEN 7
    ELSE IF Le(v, Ones(7)) THEN 8
    ELSE 9

varint_size_u64(v) ==
    IF Le(v, Lit(240)) THEN 1
    ELSE IF Le(v, Lit(2031)) THEN 2
    ELSE IF Le(v, Lit(67567)) THEN 3
    ELSE IF Le(v, Lit(16777215)) THEN 4
    ELSE IF Le(v, Ones(4)) THEN 5
    ELSE IF Le(v, Ones(5)) THEN 6
    ELSE IF Le(v, Ones(6)) THEN 7
    ELSE IF Le(v, Ones(7)) THEN 8
    ELSE 9

\* the u128 calculator giving the payload's 16 bytes for the last class
varint_size_u128_payload_count(v) ==
    IF Le(v, Lit(240)) THEN 1
    ELSE IF Le(v, Lit(2031)) THEN 2
    ELSE IF Le(v, Lit(67567)) THEN 3
    ELSE IF Le(v, Lit(16777215)) THEN 4
    ELSE IF Le(v, Ones(4)) THEN 5
    ELSE IF Le(v, Ones(5)) THEN 6
    ELSE IF Le(v, Ones(6)) THEN 7
    ELSE IF Le(v, Ones(7)) THEN 8
    ELSE IF Le(v, Ones(8)) THEN 9
    ELSE 16

varint_size_u128(v) ==
    IF Le(v, Lit(240)) THEN 1
    ELSE IF Le(v, Lit(2031)) THEN 2
    ELSE IF Le(v, Lit(67567)) THEN 3
    ELSE IF Le(v, Lit(16777215)) THEN 4
    ELSE IF Le(v, Ones(4)) THEN 5
    ELSE IF Le(v, Ones(5)) THEN 6
    ELSE IF Le(v, Ones(6)) THEN 7
    ELSE IF Le(v, Ones(7)) THEN 8
    ELSE IF Le(v, Ones(8)) THEN 9
    ELSE 17

\* ------------------------------------------------------------------------
\* Zigzag
\* ------------------------------------------------------------------------

RECURSIVE XorBits(_, _, _)
XorBits(x, y, k) ==
    IF k = 0 THEN 0
    ELSE ((x + y) % 2) + 2 * XorBits(x \div 2, y \div 2, k - 1)

\* x ^ y on bytes
Xor8(x, y) == XorBits(x, y, 8)

\* a ^ b on images of one width
Xor(a, b) == [i \in 1..Len(a) |-> Xor8(a[i], b[i])]

\* v << 1 (the bit shifted out is dropped; a shift by 1 never panics)
Shl1(a) ==
    [i \in 1..Len(a) |->
        (2 * a[i] + (IF i > 1 /\ a[i - 1] >= 128 THEN 1 ELSE 0)) % 256]

\* v >> 1 on an unsigned image (logical)
Shr1(a) ==
    [i \in 1..Len(a) |->
        (a[i] \div 2) + (IF i < Len(a) /\ a[i + 1] % 2 = 1 THEN 128 ELSE 0)]

\* v >> (N-1) on a signed image (arithmetic): 0 or -1
SignFill(a) == [i \in 1..Len(a) |-> IF a[Len(a)] >= 128 THEN 255 ELSE 0]

\* -((v & 1) as iN): 0 or -1
NegLowBit(a) == [i \in 1..Len(a) |-> IF a[1] % 2 = 1 THEN 255 ELSE 0]

\* the sign shifted logically: v >> (N-1) is 0 or 1
varint_to_varuint_logical_shift(v) ==
    Xor(Shl1(v), [i \in 1..Len(v) |-> IF i = 1 /\ v[Len(v)] >= 128 THEN 1 ELSE 0])

\* varint_to_varuint_8 .. varint_to_varuint_128: ((v << 1) ^ (v >> (N-1))) as uN
varint_to_varuint(v) == Xor(Shl1(v), SignFill(v))

\* the inverse with the negation dropped: ((v >> 1) as iN) ^ ((v & 1) as iN)
varuint_to_varint_no_negation(v) ==
    Xor(Shr1(v), [i \in 1..Len(v) |-> IF i = 1 THEN v[1] % 2 ELSE 0])

\* varuint_to_varint_8 .. varuint_to_varint_128: ((v >> 1) as iN) ^ -((v & 1) as iN)
varuint_to_varint(v) == Xor(Shr1(v), NegLowBit(v))

\* ------------------------------------------------------------------------
\* WriteVarint: the bytes handed to Write::write, or a panic
\* ------------------------------------------------------------------------

\* the loop shifting by 8 * (i + 1): the lowest byte is skipped
write_value_from_second_byte(v, k) == [i \in 1..k |-> Dig(v, i + 1)]

\* write_value_32/64/128(&mut buf[1..=k], v): byte i is (v >> (8 * i)) as u8
write_value(v, k) == [i \in 1..k |-> Dig(v, i)]

\* the first k bytes of v's memory image on a big-endian target
copy_from_value_big_endian(v, k) == [i \in 1..k |-> v[Len(v) + 1 - i]]

\* ptr::copy_nonoverlapping(&v as *const u8, &mut buf[1], k): the first k
\* bytes of v's memory image
copy_from_value(v, k) == SubSeq(v, 1, k)

\* arm 2 with the prefix of the u8 arm: buf[0] = 241
Arm2FixedPrefix(v) == <<241, Dig(WrappingSub(v, Lit(240)), 1)>>

\* buf[0] = ((v - 240) / 256 + 241) as u8; buf[1] = ((v - 240) % 256) as u8
Arm2(v) ==
    <<(Dig(Div256(WrappingSub(v, Lit(240))), 1) + 241) % 256,
      Dig(WrappingSub(v, Lit(240)), 1)>>

\* arm 3 with the payload low byte first, as the longer classes have it
Arm3LittleEndian(v) ==
    <<248,
      Dig(WrappingSub(v, Lit(2032)), 1),
      Dig(Div256(WrappingSub(v, Lit(2032))), 1)>>

\* buf[0] = 248; buf[1] = ((v - 2032) / 256) as u8; buf[2] = ((v - 2032) % 256) as u8
Arm3(v) ==
    <<248,
      Dig(Div256(WrappingSub(v, Lit(2032))), 1),
      Dig(WrappingSub(v, Lit(2032)), 1)>>

write_varint_u8(v) ==
    LET size == varint_size_u8(v)
    IN  CASE size = 1 -> Slice(Buffer(2, <<v[1]>>), size)
          [] size = 2 ->
                IF SubPanics(v, Lit(240)) THEN Panicked
                ELSE Slice(Buffer(2, <<241, Dig(WrappingSub(v, Lit(240)), 1)>>), size)
          [] OTHER -> Panicked

write_varint_u16(v) ==
    LET size == varint_size_u16(v)
    IN  CASE size = 1 -> Slice(Buffer(3, <<v[1]>>), size)
          [] size = 2 ->
                IF SubPanics(v, Lit(240)) THEN Panicked
                ELSE Slice(Buffer(3, Arm2(v)), size)
          [] size = 3 ->
                IF SubPanics(v, Lit(2032)) THEN Panicked
                ELSE Slice(Buffer(3, Arm3(v)), size)
          [] OTHER -> Panicked

write_varint_u32(v) ==
    LET size == varint_size_u32(v)
    IN  CASE size = 1 -> Slice(Buffer(5, <<v[1]>>), size)
          [] size = 2 ->
                IF SubPanics(v, Lit(240)) THEN Panicked
                ELSE Slice(Buffer(5, Arm2(v)), size)
          [] size = 3 ->
                IF SubPanics(v, Lit(2032)) THEN Panicked
                ELSE Slice(Buffer(5, Arm3(v)), size)
          [] size = 4 -> Slice(Buffer(5, <<249>> \o write_value(v, 3)), size)
          [] size = 5 -> Slice(Buffer(5, <<250>> \o copy_from_value(v, 4)), size)
          [] OTHER -> Panicked

write_varint_u64(v) ==
    LET size == varint_size_u64(v)
    IN  CASE size = 1 -> Slice(Buffer(9, <<v[1]>>), size)
          [] size = 2 ->
                IF SubPanics(v, Lit(240)) THEN Panicked
                ELSE Slice(Buffer(9, Arm2(v)), size)
          [] size = 3 ->
                IF SubPanics(v, Lit(2032)) THEN Panicked
                ELSE Slice(Buffer(9, Arm3(v)), size)
          [] size = 4 -> Slice(Buffer(9, <<249>> \o write_value(v, 3)), size)
          [] size = 5 -> Slice(Buffer(9, <<250>> \o copy_from_value(v, 4)), size)
          [] size = 6 -> Slice(Buffer(9, <<251>> \o write_value(v, 5)), size)
          [] size = 7 -> Slice(Buffer(9, <<252>> \o write_value(v, 6)), size)
          [] size = 8 -> Slice(Buffer(9, <<253>> \o write_value(v, 7)), size)
          [] size = 9 -> Slice(Buffer(9, <<254>> \o copy_from_value(v, 8)), size)
          [] OTHER -> Panicked

write_varint_u128(v) ==
    LET size == varint_size_u128(v)
    IN  CASE size = 1 -> Slice(Buffer(17, <<v[1]>>), size)
          [] size = 2 ->
                IF SubPanics(v, Lit(240)) THEN Panicked
                ELSE Slice(Buffer(17, Arm2(v)), size)
          [] size = 3 ->
                IF SubPanics(v, Lit(2032)) THEN Panicked
                ELSE Slice(Buffer(17, Arm3(v)), size)
          [] size = 4 -> Slice(Buffer(17, <<249>> \o write_value(v, 3)), size)
          [] size = 5 -> Slice(Buffer(17, <<250>> \o copy_from_value(v, 4)), size)
          [] size = 6 -> Slice(Buffer(17, <<251>> \o write_value(v, 5)), size)
          [] size = 7 -> Slice(Buffer(17, <<252>> \o write_value(v, 6)), size)
          [] size = 8 -> Slice(Buffer(17, <<253>> \o write_value(v, 7)), size)
          [] size = 9 -> Slice(Buffer(17, <<254>> \o copy_from_value(v, 8)), size)
          [] size = 17 -> Slice(Buffer(17, <<255>> \o copy_from_value(v, 16)), size)
          [] OTHER -> Panicked

\* VarintSizeHint::varint_size at every type; a signed value is sized as its
\* zigzag image
varint_size(ty, v) ==
    CASE ty = "u8" -> varint_size_u8(v)
      [] ty = "u16" -> varint_size_u16(v)
      [] ty = "u32" -> varint_size_u32(v)
      [] ty = "u64" -> varint_size_u64(v)
      [] ty = "u128" -> varint_size_u128(v)
      [] ty = "i8" -> varint_size_u8(varint_to_varuint(v))
      [] ty = "i16" -> varint_size_u16(varint_to_varuint(v))
      [] ty = "i32" -> varint_size_u32(varint_to_varuint(v))
      [] ty = "i64" -> varint_size_u64(varint_to_varuint(v))
      [] ty = "i128" -> varint_size_u128(varint_to_varuint(v))

\* the signed arms casting the value (v as uN) where they call the zigzag
write_varint_signed_cast(ty, v) ==
    CASE ty \in {"u8", "i8"} -> write_varint_u8(v)
      [] ty \in {"u16", "i16"} -> write_varint_u16(v)
      [] ty \in {"u32", "i32"} -> write_varint_u32(v)
      [] ty \in {"u64", "i64"} -> write_varint_u64(v)
      [] ty \in {"u128", "i128"} -> write_varint_u128(v)

\* WriteVarint<T>::write_varint up to its call of Write::write; a signed
\* value is written as its zigzag image
write_varint(ty, v) ==
    CASE ty = "u8" -> write_varint_u8(v)
      [] ty = "u16" -> write_varint_u16(v)
      [] ty = "u32" -> write_varint_u32(v)
      [] ty = "u64" -> write_varint_u64(v)
      [] ty = "u128" -> write_varint_u128(v)
      [] ty = "i8" -> write_varint_u8(varint_to_varuint(v))
      [] ty = "i16" -> write_varint_u16(varint_to_varuint(v))
      [] ty = "i32" -> write_varint_u32(varint_to_varuint(v))
      [] ty = "i64" -> write_varint_u64(varint_to_varuint(v))
      [] ty = "i128" -> write_varint_u128(varint_to_varuint(v))

\* ------------------------------------------------------------------------
\* ReadVarint: the result of the call and where it leaves the source
\* ------------------------------------------------------------------------

\* Ok(v) after one byte too many was taken from the source
ReadOkOneByteMore(v, p) == [kind |-> "Ok", val |-> v, pos |-> p + 1]

\* Ok(v), leaving the source at position p
ReadOk(v, p) == [kind |-> "Ok", val |-> v, pos |-> p]

\* Err(UnexpectedEof) out of the read_exact called at position p (the `?`)
ReadEof(p) == [kind |-> "Err", val |-> <<>>, pos |-> p]

\* unreachable!() or an arithmetic overflow panic
ReadPanic(p) == [kind |-> "Panic", val |-> <<>>, pos |-> p]

\* Read::read_exact of n bytes at position p succeeds
CanRead(src, p, n) == p + n <= Len(src)

\* buf after read_exact(&mut buf[0..1]) and read_exact(&mut buf[1..length])
BufRead(src, p, length) == SubSeq(src, p + 1, p + length)

\* buf[i], 0-based as in the code
B(buf, i) == buf[i + 1]

\* x (below 2^24) does not fit n bytes
Overflows(x, n) == \E i \in (n + 1)..3 : Dig(Lit(x), i) # 0

\* the result of an addition chain of value x at a width of n bytes: a
\* panic in a debug build when it overflows, the wrapped value otherwise
Arith(x, n, p) ==
    IF Overflows(x, n) /\ overflow_checks THEN ReadPanic(p)
    ELSE ReadOk(FromNat(x, n), p)

\* the loop with the first byte read as the most significant one
read_value_big_endian(bytes, n) ==
    Resize([i \in 1..Len(bytes) |-> bytes[Len(bytes) + 1 - i]], n)

\* read_value_32/64/128(&buf[1..=k]): v |= uN::from(*val) << (8 * i)
read_value(bytes, n) == Resize(bytes, n)

\* the copy made with the size of the destination type: the bytes of a
\* wider destination past the payload come from the unassigned part of buf
copy_to_value_full_width(bytes, n) ==
    [i \in 1..n |-> IF i <= Len(bytes) THEN bytes[i] ELSE Uninit]

\* ptr::copy_nonoverlapping(&buf[1], &mut v as *mut u8, k) into v: u32, u64
\* or u128, then uN::from(v)
copy_to_value(bytes, n) == Resize(bytes, n)

read_varint_u8(src, p) ==
    IF ~CanRead(src, p, 1) THEN ReadEof(p)
    ELSE LET b0 == src[p + 1]
             length == CASE b0 <= 240 -> 1
                         [] b0 \in 241..247 -> 2
                         [] OTHER -> 0
             buf == BufRead(src, p, length)
         IN  IF length = 1 THEN ReadOk(<<b0>>, p + 1)
             ELSE IF length = 0 THEN ReadPanic(p + 1)
             ELSE IF ~CanRead(src, p + 1, length - 1) THEN ReadEof(p + 1)
             ELSE CASE length = 2 -> Arith(240 + B(buf, 1), 1, p + length)
                    [] OTHER -> ReadPanic(p + length)

read_varint_u16(src, p) ==
    IF ~CanRead(src, p, 1) THEN ReadEof(p)
    ELSE LET b0 == src[p + 1]
             length == CASE b0 <= 240 -> 1
                         [] b0 \in 241..247 -> 2
                         [] b0 = 248 -> 3
                         [] OTHER -> 0
             buf == BufRead(src, p, length)
         IN  IF length = 1 THEN ReadOk(FromNat(b0, 2), p + 1)
             ELSE IF length = 0 THEN ReadPanic(p + 1)
             ELSE IF ~CanRead(src, p + 1, length - 1) THEN ReadEof(p + 1)
             ELSE CASE length = 2 ->
                         Arith(240 + 256 * (B(buf, 0) - 241) + B(buf, 1), 2, p + length)
                    [] length = 3 ->
                         Arith(2032 + 256 * B(buf, 1) + B(buf, 2), 2, p + length)
                    [] OTHER -> ReadPanic(p + length)

read_varint_u32(src, p) ==
    IF ~CanRead(src, p, 1) THEN ReadEof(p)
    ELSE LET b0 == src[p + 1]
             length == CASE b0 <= 240 -> 1
                         [] b0 \in 241..247 -> 2
                         [] b0 = 248 -> 3
                         [] b0 = 249 -> 4
                         [] b0 = 250 -> 5
                         [] OTHER -> 0
             buf == BufRead(src, p, length)
         IN  IF length = 1 THEN ReadOk(FromNat(b0, 4), p + 1)
             ELSE IF length = 0 THEN ReadPanic(p + 1)
             ELSE IF ~CanRead(src, p + 1, length - 1) THEN ReadEof(p + 1)
             ELSE CASE length = 2 ->
                         Arith(240 + 256 * (B(buf, 0) - 241) + B(buf, 1), 4, p + length)
                    [] length = 3 ->
                         Arith(2032 + 256 * B(buf, 1) + B(buf, 2), 4, p + length)
                    [] length = 4 -> ReadOk(read_value(SubSeq(buf, 2, 4), 4), p + length)
                    [] length = 5 -> ReadOk(copy_to_value(SubSeq(buf, 2, 5), 4), p + length)
                    [] OTHER -> ReadPanic(p + length)

read_varint_u64(src, p) ==
    IF ~CanRead(src, p, 1) THEN ReadEof(p)
    ELSE LET b0 == src[p + 1]
             length == CASE b0 <= 240 -> 1
                         [] b0 \in 241..247 -> 2
                         [] b0 = 248 -> 3
                         [] b0 = 249 -> 4
                         [] b0 = 250 -> 5
                         [] b0 = 251 -> 6
                         [] b0 = 252 -> 7
                         [] b0 = 253 -> 8
                         [] b0 = 254 -> 9
                         [] OTHER -> 0
             buf == BufRead(src, p, length)
         IN  IF length = 1 THEN ReadOk(FromNat(b0, 8), p + 1)
             ELSE IF length = 0 THEN ReadPanic(p + 1)
             ELSE IF ~CanRead(src, p + 1, length - 1) THEN ReadEof(p + 1)
             ELSE CASE length = 2 ->
                         Arith(240 + 256 * (B(buf, 0) - 241) + B(buf, 1), 8, p + length)
                    [] length = 3 ->
                         Arith(2032 + 256 * B(buf, 1) + B(buf, 2), 8, p + length)
                    [] length = 4 -> ReadOk(read_value(SubSeq(buf, 2, 4), 8), p + length)
                    [] length = 5 -> ReadOk(copy_to_value(SubSeq(buf, 2, 5), 8), p + length)
                    [] length = 6 -> ReadOk(read_value(SubSeq(buf, 2, 6), 8), p + length)
                    [] length = 7 -> ReadOk(read_value(SubSeq(buf, 2, 7), 8), p + length)
                    [] length = 8 -> ReadOk(read_value(SubSeq(buf, 2, 8), 8), p + length)
                    [] length = 9 -> ReadOk(copy_to_value(SubSeq(buf, 2, 9), 8), p + length)
                    [] OTHER -> ReadPanic(p + length)

read_varint_u128(src, p) ==
    IF ~CanRead(src, p, 1) THEN ReadEof(p)
    ELSE LET b0 == src[p + 1]
             length == CASE b0 <= 240 -> 1
                         [] b0 \in 241..247 -> 2
                         [] b0 = 248 -> 3
                         [] b0 = 249 -> 4
                         [] b0 = 250 -> 5
                         [] b0 = 251 -> 6
                         [] b0 = 252 -> 7
                         [] b0 = 253 -> 8
                         [] b0 = 254 -> 9
                         [] b0 = 255 -> 17
             buf == BufRead(src, p, length)
         IN  IF length = 1 THEN ReadOk(FromNat(b0, 16), p + 1)
             ELSE IF ~CanRead(src, p + 1, length - 1) THEN ReadEof(p + 1)
             ELSE CASE length = 2 ->
                         Arith(240 + 256 * (B(buf, 0) - 241) + B(buf, 1), 16, p + length)
                    [] length = 3 ->
                         Arith(2032 + 256 * B(buf, 1) + B(buf, 2), 16, p + length)
                    [] length = 4 -> ReadOk(read_value(SubSeq(buf, 2, 4), 16), p + length)
                    [] length = 5 -> ReadOk(copy_to_value(SubSeq(buf, 2, 5), 16), p + length)
                    [] length = 6 -> ReadOk(read_value(SubSeq(buf, 2, 6), 16), p + length)
                    [] length = 7 -> ReadOk(read_value(SubSeq(buf, 2, 7), 16), p + length)
                    [] length = 8 -> ReadOk(read_value(SubSeq(buf, 2, 8), 16), p + length)
                    [] length = 9 -> ReadOk(copy_to_value(SubSeq(buf, 2, 9), 16), p + length)
                    [] length = 17 -> ReadOk(copy_to_value(SubSeq(buf, 2, 17), 16), p + length)
                    [] OTHER -> ReadPanic(p + length)

\* ReadVarint<iN>::read_varint: Ok(varuint_to_varint_N(self.read_varint()?))
Signed(r) ==
    IF r.kind = "Ok" THEN ReadOk(varuint_to_varint(r.val), r.pos) ELSE r

\* ReadVarint<T>::read_varint at every type
read_varint(ty, src, p) ==
    CASE ty = "u8" -> read_varint_u8(src, p)
      [] ty = "u16" -> read_varint_u16(src, p)
      [] ty = "u32" -> read_varint_u32(src, p)
      [] ty = "u64" -> read_varint_u64(src, p)
      [] ty = "u128" -> read_varint_u128(src, p)
      [] ty = "i8" -> Signed(read_varint_u8(src, p))
      [] ty = "i16" -> Signed(read_varint_u16(src, p))
      [] ty = "i32" -> Signed(read_varint_u32(src, p))
      [] ty = "i64" -> Signed(read_varint_u64(src, p))
      [] ty = "i128" -> Signed(read_varint_u128(src, p))

\* ------------------------------------------------------------------------
\* Varint<T>: Serializable and Deserializable
\* ------------------------------------------------------------------------

\* Varint<T>::size_hint: self.0.varint_size()
size_hint(ty, v) == varint_size(ty, v)

\* Varint<T>::serialize: w.write_varint(self.0)
serialize(ty, v) == write_varint(ty, v)

\* Varint<T>::deserialize: Ok(Self(r.read_varint()?))
deserialize(ty, src, p) == read_varint(ty, src, p)

\* ------------------------------------------------------------------------
\* The byte sink and source (std::io::Write / Read as the crate uses them)
\* ------------------------------------------------------------------------

\* the number of bytes one Write::write call takes: a Cursor<Vec<u8>> takes
\* all of them, a byte slice only what room it has left
WriteAmount(k) ==
    IF sink = "vec" THEN k ELSE Min2(k, Len(data) - pos)

\* the sink's bytes after Write::write put the first amt of bytes at pos
Written(bytes, amt) ==
    SubSeq(data, 1, pos) \o SubSeq(bytes, 1, amt)
        \o SubSeq(data, pos + amt + 1, Len(data))

\* one entry of the call log
Call(op, ty, val, kind, n, hint, from, to, len0, len1) ==
    [op |-> op, ty |-> ty, val |-> val, kind |-> kind, n |-> n, hint |-> hint,
     from |-> from, to |-> to, len0 |-> len0, len1 |-> len1]

\* a panic unwinds the caller: nothing runs after it
Alive == IF log = <<>> THEN TRUE ELSE log[Len(log)].kind # "Panic"

Count(op) == Cardinality({i \in 1..Len(log) : log[i].op = op})

\* w.write_varint(v) / Varint(v).serialize(w), with the v.varint_size() /
\* size_hint() the caller asks for beside it
WriteVarint(ty, v) ==
    LET e == IF api = "wrapper" THEN serialize(ty, v) ELSE write_varint(ty, v)
        hint == IF api = "wrapper" THEN size_hint(ty, v) ELSE varint_size(ty, v)
        amt == WriteAmount(Len(e.bytes))
    IN  /\ Alive
        /\ IF e.kind = "Panic"
           THEN /\ log' = Append(log, Call("write", ty, v, "Panic", 0, hint,
                                           pos, pos, Len(data), Len(data)))
                /\ UNCHANGED <<data, pos>>
           ELSE /\ data' = Written(e.bytes, amt)
                /\ pos' = pos + amt
                /\ log' = Append(log, Call("write", ty, v, "Ok", amt, hint,
                                           pos, pos + amt, Len(data), Len(data')))
        /\ UNCHANGED <<sink, overflow_checks, api, frames>>

\* the call reading the source to its end, as Read::read_to_end would
ReadVarintDrainsSource(ty) ==
    LET r == IF api = "wrapper" THEN deserialize(ty, data, pos)
             ELSE read_varint(ty, data, pos)
    IN  /\ Alive
        /\ pos' = Len(data)
        /\ log' = Append(log, Call("read", ty, r.val, r.kind, 0, 0,
                                   pos, Len(data), Len(data), Len(data)))
        /\ UNCHANGED <<data, sink, overflow_checks, api, frames>>

\* r.read_varint() / Varint::<T>::deserialize(r).  When read_exact fails it
\* leaves the source where it was or at its end, as the std version has it.
ReadVarint(ty) ==
    LET r == IF api = "wrapper" THEN deserialize(ty, data, pos)
             ELSE read_varint(ty, data, pos)
    IN  /\ Alive
        /\ \E q \in (IF r.kind = "Err" THEN {r.pos, Len(data)} ELSE {r.pos}) :
              /\ pos' = q
              /\ log' = Append(log, Call("read", ty, r.val, r.kind, 0, 0,
                                         pos, q, Len(data), Len(data)))
        /\ UNCHANGED <<data, sink, overflow_checks, api, frames>>

\* cur.set_position(0) / reading the written array from its start
Rewind ==
    /\ Alive
    /\ pos' = 0
    /\ log' = Append(log, Call("rewind", "u8", <<>>, "Ok", 0, 0, pos, 0, Len(data), Len(data)))
    /\ UNCHANGED <<data, sink, overflow_checks, api, frames>>

\* ------------------------------------------------------------------------
\* The values and inputs the calls are tried on
\* ------------------------------------------------------------------------

Zeros(k) == [i \in 1..k |-> 0]

\* integers around every threshold of the length classes and of zigzag
SmallValues ==
    {0, 1, 15, 16, 119, 120, 121, 127, 128, 239, 240, 241, 242, 255, 256, 495, 496,
     1015, 1016, 1017, 2030, 2031, 2032, 2033, 32767, 32768, 65519, 65520, 65535,
     65536, 67566, 67567, 67568, 8388607, 8388608, 16777214, 16777215}

\* byte images of k significant bytes: 2^(8k) - 1, 2^(8(k-1)), the bytes
\* 1, 2, .., k (every byte distinct), the top bit alone (iN::MIN) and
\* all bits but the top one (iN::MAX)
Patterns(k) ==
    {Ones(k),
     Zeros(k - 1) \o <<1>>,
     [i \in 1..k |-> i],
     Zeros(k - 1) \o <<128>>,
     Ones(k - 1) \o <<127>>,
     Ones(k - 1) \o <<254>>}

\* the unsigned values of n bytes the calls are tried on
UnsignedValues(n) ==
    {FromNat(x, n) : x \in {y \in SmallValues : ~Overflows(y, n)}}
        \cup UNION {{Resize(d, n) : d \in Patterns(k)} : k \in 1..n}

\* the signed values of n bytes: the same images, and the negatives of the
\* small values
SignedValues(n) ==
    UnsignedValues(n)
        \cup {WrappingSub(Zeros(n), FromNat(x, n)) :
                 x \in {y \in SmallValues : ~Overflows(y, n)}}

Values(ty) ==
    IF ty \in SignedTypes THEN SignedValues(SizeOf(ty)) ELSE UnsignedValues(SizeOf(ty))

\* ------------------------------------------------------------------------
\* test_varuint: one value written, the source rewound, one value read.
\* tests/read_write.rs uses the traits on a new Cursor<Vec<u8>>,
\* tests/varuint.rs uses Varint<T> on a zeroed [u8; 17].
\* ------------------------------------------------------------------------

\* reads a run makes at most
MaxReads == 1

Init ==
    /\ \/ sink = "vec" /\ api = "trait" /\ data = <<>>
       \/ sink = "slice" /\ api = "wrapper" /\ data = Zeros(17)
    /\ pos = 0
    /\ overflow_checks \in BOOLEAN
    /\ log = <<>>
    /\ frames = <<>>

WriteOne ==
    /\ Count("write") = 0
    /\ Count("read") = 0
    /\ \E ty \in Types : \E v \in Values(ty) : WriteVarint(ty, v)

ReadNext ==
    /\ Count("read") < MaxReads
    /\ \E ty \in Types : ReadVarint(ty)

RewindOnce ==
    /\ Count("rewind") = 0
    /\ Count("read") = 0
    /\ Rewind

Next == WriteOne \/ RewindOnce \/ ReadNext

Spec == Init /\ [][Next]_vars

\* ------------------------------------------------------------------------
\* Properties
\* ------------------------------------------------------------------------

\* entry i of the log writes to the start of the sink, entry i + 1 rewinds
\* and entry i + 2 reads at the type that was written
RoundTripAt(i) ==
    /\ i + 2 <= Len(log)
    /\ log[i].op = "write" /\ log[i].from = 0
    /\ log[i + 1].op = "rewind"
    /\ log[i + 2].op = "read" /\ log[i + 2].ty = log[i].ty

\* C1: unsigned round trip.  A value of an unsigned type written by
\* write_varint to an empty unbounded sink is written without a panic, and
\* read_varint at the same type from the start of the sink returns Ok of it.
C1_UnsignedRoundTrip ==
    \A i \in 1..Len(log) :
        /\ (log[i].op = "write" /\ log[i].ty \in UnsignedTypes) => log[i].kind = "Ok"
        /\ (RoundTripAt(i) /\ log[i].ty \in UnsignedTypes)
             => (log[i + 2].kind = "Ok" /\ log[i + 2].val = log[i].val)

\* a u128 of 17 encoded bytes was written to the Vec and read back
C1_Witness ==
    /\ sink = "vec"
    /\ RoundTripAt(1)
    /\ log[1].ty = "u128" /\ log[1].n = 17 /\ log[3].kind = "Ok"

\* C2: signed round trip.  Varint(s).serialize followed by
\* Varint::<iN>::deserialize on the bytes produced returns s, at every signed
\* width, iN::MIN and iN::MAX included.
C2_SignedRoundTrip ==
    \A i \in 1..Len(log) :
        /\ (log[i].op = "write" /\ log[i].ty \in SignedTypes) => log[i].kind = "Ok"
        /\ (RoundTripAt(i) /\ log[i].ty \in SignedTypes)
             => (log[i + 2].kind = "Ok" /\ log[i + 2].val = log[i].val)

\* i128::MIN went through Varint<i128>::serialize and deserialize
C2_Witness ==
    /\ api = "wrapper"
    /\ RoundTripAt(1)
    /\ log[1].ty = "i128" /\ log[1].val = Zeros(15) \o <<128>>
    /\ log[3].kind = "Ok" /\ log[3].val = log[1].val

\* C3: size agreement.  On a sink with room for the whole encoding, the
\* count write_varint / serialize returns equals varint_size / size_hint of
\* the value, the sink's position advances by it, and a sink written at its
\* end grows by it.
C3_SizeAgreement ==
    \A i \in 1..Len(log) :
        log[i].op = "write" =>
            /\ log[i].kind = "Ok"
            /\ log[i].n = log[i].hint
            /\ log[i].to - log[i].from = log[i].hint
            /\ (sink = "vec" /\ log[i].from = log[i].len0)
                 => log[i].len1 - log[i].len0 = log[i].hint

\* a signed value of 9 encoded bytes was written to the growing sink
C3_Witness ==
    /\ sink = "vec"
    /\ Len(log) >= 1
    /\ log[1].op = "write" /\ log[1].ty = "i64" /\ log[1].hint = 9
    /\ log[1].len1 - log[1].len0 = 9

\* ------------------------------------------------------------------------
\* Decoding arbitrary bytes: one read_varint call on a byte slice that did
\* not come from write_varint
\* ------------------------------------------------------------------------

\* payload bytes after the prefix, at most
MaxPayload == 17

\* first bytes: the single-byte values and every prefix of a longer class
PrefixBytes == {0, 1, 239, 240} \cup 241..255

\* the first payload byte
FirstBytes == {0, 1, 15, 16, 248, 255}

\* the later payload bytes: all 0, all 255, or byte i is i
FillKinds == {"zero", "ones", "ramp"}

Payload(b1, kind, n) ==
    [i \in 1..n |->
        IF i = 1 THEN b1
        ELSE CASE kind = "zero" -> 0
               [] kind = "ones" -> 255
               [] kind = "ramp" -> i]

Inputs ==
    {<<>>} \cup
    {<<p>> \o Payload(b1, kind, n) :
        p \in PrefixBytes, b1 \in FirstBytes, kind \in FillKinds, n \in 0..MaxPayload}

DecodeInit ==
    /\ data \in Inputs
    /\ pos = 0
    /\ sink = "slice"
    /\ api = "trait"
    /\ overflow_checks \in BOOLEAN
    /\ log = <<>>
    /\ frames = <<>>

DecodeOne ==
    /\ log = <<>>
    /\ \E ty \in Types : ReadVarint(ty)

DecodeNext == DecodeOne

DecodeSpec == DecodeInit /\ [][DecodeNext]_vars

\* ------------------------------------------------------------------------
\* Properties of decoding, stated against the decode table of the format
\* ------------------------------------------------------------------------

\* the byte the source starts with, when it has one
Prefix == data[1]

\* the destinations narrower than 128 bits
NarrowTypes == Types \ {"u128", "i128"}

\* payload bytes the decode table reads after prefix p
PayloadLen(p) ==
    CASE p <= 240 -> 0
      [] p \in 241..247 -> 1
      [] p = 248 -> 2
      [] p \in 249..254 -> p - 246
      [] p = 255 -> 16

\* the magnitude the decode table assigns to the bytes of src that start
\* with prefix p and hold its payload, as a 16-byte image
TableValue(src) ==
    LET p == src[1]
    IN  CASE p <= 240 -> FromNat(p, 16)
          [] p \in 241..247 -> FromNat(240 + 256 * (p - 241) + src[2], 16)
          [] p = 248 -> FromNat(2032 + 256 * src[2] + src[3], 16)
          [] OTHER -> Resize(SubSeq(src, 2, 1 + PayloadLen(p)), 16)

\* C4 as claimed: read_varint into a destination narrower than 128 bits, on
\* a stream whose first byte is 255, returns an error result.
C4_Prefix255Rejected ==
    \A i \in 1..Len(log) :
        (log[i].op = "read" /\ log[i].from = 0 /\ log[i].ty \in NarrowTypes
            /\ data # <<>> /\ Prefix = 255)
          => log[i].kind = "Err"

\* C5 as claimed: read_varint into u8 on a prefix in 248..254, into u16 on
\* a prefix in 249..254 and into u32 on a prefix in 251..254 returns an error
\* result, whatever follows the prefix.
C5_WidthCeilingRejected ==
    \A i \in 1..Len(log) :
        (log[i].op = "read" /\ log[i].from = 0 /\ data # <<>>
            /\ \/ log[i].ty = "u8" /\ Prefix \in 248..254
               \/ log[i].ty = "u16" /\ Prefix \in 249..254
               \/ log[i].ty = "u32" /\ Prefix \in 251..254)
          => log[i].kind = "Err"

\* C6 as claimed: when read_varint at an unsigned width returns Ok(v), v is
\* the magnitude the decode table assigns to the bytes consumed; never a
\* truncated or wrapped one.
C6_NoSilentTruncation ==
    \A i \in 1..Len(log) :
        (log[i].op = "read" /\ log[i].from = 0 /\ log[i].ty \in UnsignedTypes
            /\ log[i].kind = "Ok")
          => Resize(log[i].val, 16) = TableValue(data)

\* C7 as claimed: whenever read_varint accepts a byte sequence, consuming
\* all of it, and returns m, write_varint(m) at that width emits exactly
\* that byte sequence.
C7_DecoderAcceptsOnlyCanonical ==
    \A i \in 1..Len(log) :
        (log[i].op = "read" /\ log[i].from = 0 /\ log[i].kind = "Ok"
            /\ log[i].to = Len(data))
          => write_varint(log[i].ty, log[i].val).bytes = data

\* C7 as amended: whenever read_varint accepts a byte sequence b and
\* returns m, write_varint(m) at that width emits without panic a byte
\* sequence of at most Len(b) bytes which read_varint decodes back to m, all
\* of it consumed: encoding is injective and decoding inverts it, while the
\* decoder also accepts sequences the encoder never emits.
C7_EncoderCanonical ==
    \A i \in 1..Len(log) :
        (log[i].op = "read" /\ log[i].from = 0 /\ log[i].kind = "Ok")
          => LET e == write_varint(log[i].ty, log[i].val)
             IN  /\ e.kind = "Ok"
                 /\ Len(e.bytes) <= log[i].to
                 /\ read_varint(log[i].ty, e.bytes, 0)
                      = ReadOk(log[i].val, Len(e.bytes))

\* [249, 0, 0, 0] was accepted at u32 as 0, whose encoding is the one byte [0]
C7_Witness ==
    /\ data = <<249, 0, 0, 0>>
    /\ Len(log) = 1
    /\ log[1].op = "read" /\ log[1].ty = "u32" /\ log[1].kind = "Ok"
    /\ log[1].val = Zeros(4)
    /\ write_varint("u32", log[1].val).bytes = <<0>>

\* C10 as claimed: at every destination width, read_varint on an empty
\* source, or on one that ends before the payload bytes its prefix requires,
\* returns an error and never a value.
C10_SourceExhaustion ==
    \A i \in 1..Len(log) :
        (log[i].op = "read" /\ log[i].from = 0
            /\ (data = <<>> \/ Len(data) < 1 + PayloadLen(Prefix)))
          => log[i].kind = "Err"

\* ------------------------------------------------------------------------
\* Streams: values written back to back into one Cursor<Vec<u8>>, the
\* cursor rewound, and the values read with the types they were written
\* with (the crate example of lib.rs)
\* ------------------------------------------------------------------------

\* values a stream holds at most
MaxWrites == 2

\* per type a short and the longest encoding: 300 (44 at u8) and uN::MAX,
\* -1 and iN::MIN
StreamValues(ty) ==
    LET n == SizeOf(ty)
    IN  IF ty \in SignedTypes THEN {Ones(n), Zeros(n - 1) \o <<128>>}
        ELSE {Resize(<<44, 1>>, n), Ones(n)}

StreamInit ==
    /\ sink = "vec"
    /\ data = <<>>
    /\ api \in {"trait", "wrapper"}
    /\ pos = 0
    /\ overflow_checks \in BOOLEAN
    /\ log = <<>>
    /\ frames = <<>>

StreamWrite ==
    /\ Count("write") < MaxWrites
    /\ Count("rewind") = 0
    /\ \E ty \in Types : \E v \in StreamValues(ty) : WriteVarint(ty, v)

StreamRewind ==
    /\ Count("write") >= 1
    /\ Count("rewind") = 0
    /\ Rewind

\* the next read is made at the type of the write it answers
StreamRead ==
    /\ Count("rewind") = 1
    /\ Count("read") < Count("write")
    /\ ReadVarint(log[Count("read") + 1].ty)

StreamNext == StreamWrite \/ StreamRewind \/ StreamRead

StreamSpec == StreamInit /\ [][StreamNext]_vars

\* ------------------------------------------------------------------------
\* serialize_varint (benches/benchmark.rs): values written again and again
\* into one 17-byte slice, which each write shortens
\* ------------------------------------------------------------------------

SliceInit ==
    /\ sink = "slice"
    /\ data = Zeros(17)
    /\ api \in {"trait", "wrapper"}
    /\ pos = 0
    /\ overflow_checks \in BOOLEAN
    /\ log = <<>>
    /\ frames = <<>>

SliceWrite ==
    /\ Count("write") < MaxWrites
    /\ \E ty \in Types : \E v \in StreamValues(ty) : WriteVarint(ty, v)

SliceNext == SliceWrite

SliceSpec == SliceInit /\ [][SliceNext]_vars

\* the log is k writes from the start of the sink, a rewind, and reads at
\* the types written, in order
StreamShape(k) ==
    /\ k >= 1 /\ k + 1 <= Len(log)
    /\ \A i \in 1..k : log[i].op = "write"
    /\ log[1].from = 0
    /\ log[k + 1].op = "rewind"
    /\ \A i \in (k + 2)..Len(log) :
          log[i].op = "read" /\ log[i].ty = log[i - k - 1].ty

\* bytes the first k calls of the log wrote
RECURSIVE TotalWritten(_)
TotalWritten(k) == IF k = 0 THEN 0 ELSE log[k].n + TotalWritten(k - 1)

\* C8: stream ordering.  After values v1..vn of any types are written back
\* to back into one unbounded sink and the sink is rewound, the i-th
\* read_varint at the i-th type returns Ok(vi), and after the n-th read the
\* source position is the number of bytes written.
C8_StreamOrdering ==
    \A k \in 1..Len(log) :
        (sink = "vec" /\ StreamShape(k)) =>
            \A j \in 1..(Len(log) - k - 1) :
                /\ log[k + 1 + j].kind = "Ok"
                /\ log[k + 1 + j].val = log[j].val
                /\ j = k => log[k + 1 + j].to = TotalWritten(k)

\* a u8 of one byte and an i128 of 17 bytes were written and both read back
C8_Witness ==
    /\ sink = "vec"
    /\ StreamShape(2) /\ Len(log) = 5
    /\ log[1].ty = "u8" /\ log[2].ty = "i128" /\ log[2].n = 17
    /\ log[5].kind = "Ok" /\ pos = 18

\* C9 as claimed: a write_varint / serialize call appends the whole
\* encoding and returns Ok(varint_size(v)), or returns an error; it never
\* returns Ok(n) with n < varint_size(v) after appending part of it.
C9_AllOrNothingEncode ==
    \A i \in 1..Len(log) :
        (log[i].op = "write" /\ log[i].kind = "Ok") =>
            (log[i].n = log[i].hint /\ log[i].to - log[i].from = log[i].hint)

\* ------------------------------------------------------------------------
\* Properties of the length classes and of the byte layout, stated against
\* the tables of the format
\* ------------------------------------------------------------------------

\* a < b on images
Lt(a, b) == ~Le(b, a)

\* the bytes of image a up to its last non-zero one (0 for the value 0)
SigBytes(a) ==
    IF \A i \in 1..Len(a) : a[i] = 0 THEN 0
    ELSE CHOOSE k \in 1..Len(a) : a[k] # 0 /\ \A i \in (k + 1)..Len(a) : a[i] = 0

\* the number an image of at most 3 significant bytes stands for
Nat24(a) == Dig(a, 1) + 256 * Dig(a, 2) + 65536 * Dig(a, 3)

\* the length class the table of the format gives magnitude a: the classes
\* 5..9 are the magnitudes of 4..8 significant bytes, 17 is everything above
TableSize(a) ==
    IF SigBytes(a) > 8 THEN 17
    ELSE IF SigBytes(a) > 3 THEN SigBytes(a) + 1
    ELSE IF Nat24(a) <= 240 THEN 1
    ELSE IF Nat24(a) <= 2031 THEN 2
    ELSE IF Nat24(a) <= 67567 THEN 3
    ELSE 4

\* the call made last.  Every call is the last one in the state it returns
\* to, so what holds of the last call in every state holds of every call.
LastCall == IF log = <<>> THEN {} ELSE {Len(log)}

\* the bytes call i of the log put into the sink
Encoded(i) == SubSeq(data, log[i].from + 1, log[i].to)

\* call i of the log wrote a value of an unsigned type
UnsignedWrite(i) == log[i].op = "write" /\ log[i].ty \in UnsignedTypes

I64Max(n) == Resize(Ones(7) \o <<127>>, n)

\* C12 as claimed (crate documentation): an unsigned V with
\* 72_057_594_037_927_935 < V <= 9_223_372_036_854_775_807 is written as 254
\* and 8 little-endian bytes, and every larger V as 255 and 16 little-endian
\* bytes.
C12_DocumentedBoundary ==
    \A i \in 1..Len(log) :
        (UnsignedWrite(i) /\ log[i].kind = "Ok") =>
            LET v == log[i].val
            IN  /\ (Lt(Ones(7), v) /\ Le(v, I64Max(Len(v))))
                     => Encoded(i) = <<254>> \o Resize(v, 8)
                /\ Lt(I64Max(Len(v)), v)
                     => Encoded(i) = <<255>> \o Resize(v, 16)

\* C13: byte layout of classes 1-3.  At every unsigned width write_varint
\* emits [m] when m <= 240, [241 + (m-240)/256, (m-240) mod 256] when
\* 241 <= m <= 2031, with a prefix in 241..247, and
\* [248, (m-2032)/256, (m-2032) mod 256] when 2032 <= m <= 67567.
C13_LayoutClasses1To3 ==
    \A i \in LastCall :
        (UnsignedWrite(i) /\ SigBytes(log[i].val) <= 3) =>
            LET m == Nat24(log[i].val)
            IN  /\ m <= 67567 => log[i].kind = "Ok"
                /\ m <= 240 => Encoded(i) = <<m>>
                /\ (241 <= m /\ m <= 2031) =>
                      /\ Encoded(i) = <<241 + (m - 240) \div 256, (m - 240) % 256>>
                      /\ Encoded(i)[1] \in 241..247
                /\ (2032 <= m /\ m <= 67567) =>
                      Encoded(i) = <<248, (m - 2032) \div 256, (m - 2032) % 256>>

\* 2033 was written at u32 as [248, 0, 1]: the high byte comes first
C13_Witness ==
    /\ Len(log) >= 1
    /\ UnsignedWrite(1) /\ log[1].ty = "u32"
    /\ log[1].val = FromNat(2033, 4)
    /\ Encoded(1) = <<248, 0, 1>>

\* C14: byte layout of classes 4-9 and 17.  A magnitude m of length class L
\* in 4..9 is written as the prefix 245 + L and the low L - 1 bytes of m,
\* least significant first; one of class 17 as 255 and the 16 bytes of m.
C14_LayoutClasses4To17 ==
    \A i \in LastCall :
        (UnsignedWrite(i) /\ TableSize(log[i].val) >= 4) =>
            LET L == TableSize(log[i].val)
                m == log[i].val
            IN  /\ log[i].kind = "Ok"
                /\ L <= 9 => Encoded(i) = <<245 + L>> \o SubSeq(m, 1, L - 1)
                /\ L = 17 => Encoded(i) = <<255>> \o m

\* the u64 0x060504030201 was written as [252, 1, 2, 3, 4, 5, 6]
C14_Witness ==
    /\ Len(log) >= 1
    /\ UnsignedWrite(1) /\ log[1].ty = "u64"
    /\ log[1].val = <<1, 2, 3, 4, 5, 6, 0, 0>>
    /\ Encoded(1) = <<252, 1, 2, 3, 4, 5, 6>>

\* C15: decoder table on arbitrary input.  read_varint at u128, on a byte
\* sequence that holds the payload of its prefix p, returns p if p <= 240,
\* 240 + 256 * (p - 241) + b1 if 241 <= p <= 247, 2032 + 256 * b1 + b2 if
\* p = 248, the little-endian integer of the next p - 246 bytes if
\* 249 <= p <= 254 and of the next 16 bytes if p = 255, and leaves the source
\* after the payload; no prefix gives any other result.
C15_DecoderTableU128 ==
    \A i \in 1..Len(log) :
        (log[i].op = "read" /\ log[i].from = 0 /\ log[i].ty = "u128"
            /\ data # <<>> /\ Len(data) >= 1 + PayloadLen(Prefix))
          => /\ log[i].kind = "Ok"
             /\ log[i].val = TableValue(data)
             /\ log[i].to = 1 + PayloadLen(Prefix)

\* [251, 1, 2, 3, 4, 5, ..] was read at u128 as 0x0504030201
C15_Witness ==
    /\ Len(log) = 1 /\ Len(data) >= 6
    /\ Prefix = 251 /\ SubSeq(data, 2, 6) = <<1, 2, 3, 4, 5>>
    /\ log[1].op = "read" /\ log[1].ty = "u128" /\ log[1].kind = "Ok"
    /\ log[1].val = Resize(<<1, 2, 3, 4, 5>>, 16)

\* ------------------------------------------------------------------------
\* The zigzag functions called on their own: varint_to_varuint_N on a signed
\* value or varuint_to_varint_N on an unsigned one, then the other function
\* on what the last call returned
\* ------------------------------------------------------------------------

\* calls a chain makes at most
MaxCalls == 2

\* one call of a function that touches no sink: its argument and its result
PureCall(op, ty, arg, ret) ==
    [op |-> op, ty |-> ty, val |-> arg, ret |-> ret, kind |-> "Ok"]

\* the type of the same width and the other signedness
Twin(ty) ==
    CASE ty = "i8" -> "u8"     [] ty = "u8" -> "i8"
      [] ty = "i16" -> "u16"   [] ty = "u16" -> "i16"
      [] ty = "i32" -> "u32"   [] ty = "u32" -> "i32"
      [] ty = "i64" -> "u64"   [] ty = "u64" -> "i64"
      [] ty = "i128" -> "u128" [] ty = "u128" -> "i128"

\* the values the functions are tried on: all 256 at 8 bits, the values of
\* the other harnesses at the wider types
ZigzagValues(ty) ==
    IF SizeOf(ty) = 1 THEN {<<b>> : b \in Byte} ELSE Values(ty)

\* the arguments the next call can take: any value of the types tys at the
\* start, afterwards what the last call returned when that call was op
ZigzagArgs(tys, op) ==
    IF log = <<>> THEN UNION {{<<ty, v>> : v \in ZigzagValues(ty)} : ty \in tys}
    ELSE IF log[Len(log)].op = op
         THEN {<<Twin(log[Len(log)].ty), log[Len(log)].ret>>}
         ELSE {}

ZigzagInit ==
    /\ data = <<>>
    /\ pos = 0
    /\ sink = "vec"
    /\ api = "trait"
    /\ overflow_checks \in BOOLEAN
    /\ log = <<>>
    /\ frames = <<>>

ToVaruint ==
    /\ Len(log) < MaxCalls
    /\ \E a \in ZigzagArgs(SignedTypes, "varuint_to_varint") :
          log' = Append(log, PureCall("varint_to_varuint", a[1], a[2],
                                      varint_to_varuint(a[2])))
    /\ UNCHANGED <<data, pos, sink, overflow_checks, api, frames>>

ToVarint ==
    /\ Len(log) < MaxCalls
    /\ \E a \in ZigzagArgs(UnsignedTypes, "varint_to_varuint") :
          log' = Append(log, PureCall("varuint_to_varint", a[1], a[2],
                                      varuint_to_varint(a[2])))
    /\ UNCHANGED <<data, pos, sink, overflow_checks, api, frames>>

ZigzagNext == ToVaruint \/ ToVarint

ZigzagSpec == ZigzagInit /\ [][ZigzagNext]_vars

\* -a, a + a and a - 1 at the width of image a
Neg(a) == WrappingSub([i \in 1..Len(a) |-> 0], a)

Twice(a) == WrappingSub(a, Neg(a))

Pred(a) == WrappingSub(a, Resize(<<1>>, Len(a)))

\* the signed value of image a is negative
Negative(a) == a[Len(a)] >= 128

\* C16: zigzag bijection.  At every width varuint_to_varint_N undoes
\* varint_to_varuint_N on every signed s, iN::MIN and iN::MAX included, and
\* varint_to_varuint_N undoes varuint_to_varint_N on every unsigned u; no
\* call overflows; and the zigzag of s is 2 * s for s >= 0 and -2 * s - 1
\* for s < 0.
C16_ZigzagBijection ==
    \A i \in 1..Len(log) :
        /\ log[i].kind = "Ok"
        /\ log[i].op = "varint_to_varuint" =>
              log[i].ret = IF Negative(log[i].val)
                           THEN Pred(Neg(Twice(log[i].val)))
                           ELSE Twice(log[i].val)
        /\ (i < Len(log) /\ log[i].op \in {"varint_to_varuint", "varuint_to_varint"}
              /\ log[i + 1].op # log[i].op)
             => log[i + 1].ret = log[i].val

\* i128::MIN was mapped to u128::MAX and back
C16_Witness ==
    /\ Len(log) = 2
    /\ log[1].op = "varint_to_varuint" /\ log[1].ty = "i128"
    /\ log[1].val = [i \in 1..16 |-> IF i = 16 THEN 128 ELSE 0]
    /\ log[1].ret = [i \in 1..16 |-> 255]
    /\ log[2].op = "varuint_to_varint" /\ log[2].ret = log[1].val

\* 2 * s for s >= 0 and -2 * s - 1 for s < 0, at the width of s
ZigzagOf(s) == IF Negative(s) THEN Pred(Neg(Twice(s))) ELSE Twice(s)

\* -120 <= s <= 120
Within120(s) ==
    IF Negative(s) THEN Le(Neg(s), Lit(120)) ELSE Le(s, Lit(120))

\* C17: signed values reuse the unsigned layout.  write_varint of a signed s
\* puts into the sink the bytes write_varint emits for the unsigned value
\* zigzag(s) of the same width, varint_size(s) is varint_size(zigzag(s)),
\* -1 is written as the one byte [1] at every width, and s takes one byte
\* exactly when -120 <= s <= 120.
C17_SignedReusesUnsignedLayout ==
    \A i \in LastCall :
        (log[i].op = "write" /\ log[i].ty \in SignedTypes) =>
            LET s == log[i].val
                u == write_varint(Twin(log[i].ty), ZigzagOf(s))
            IN  /\ log[i].kind = "Ok" /\ u.kind = "Ok"
                /\ Encoded(i) = u.bytes
                /\ log[i].hint = varint_size(Twin(log[i].ty), ZigzagOf(s))
                /\ s = Ones(Len(s)) => Encoded(i) = <<1>>
                /\ log[i].hint = 1 <=> Within120(s)

\* -121 was written at i64 as [241, 1], the bytes of the unsigned 241
C17_Witness ==
    /\ Len(log) >= 1
    /\ log[1].op = "write" /\ log[1].ty = "i64"
    /\ log[1].val = <<135>> \o Ones(7)
    /\ Encoded(1) = <<241, 1>>
    /\ ~Within120(log[1].val)

\* the values of every type, computed once
ValuesOf == [ty \in Types |-> Values(ty)]

\* C18: monotonic length.  At every unsigned width, a magnitude below a
\* written magnitude b is never given a larger size than b.
C18_MonotonicLength ==
    \A i \in LastCall :
        UnsignedWrite(i) =>
            \A a \in ValuesOf[log[i].ty] :
                Lt(a, log[i].val) => varint_size(log[i].ty, a) <= log[i].hint

\* 2^24 was sized 5 at u32 while 2^24 - 1, below it, is sized 4
C18_Witness ==
    /\ Len(log) >= 1
    /\ UnsignedWrite(1) /\ log[1].ty = "u32"
    /\ log[1].val = <<0, 0, 0, 1>> /\ log[1].hint = 5
    /\ <<255, 255, 255, 0>> \in ValuesOf["u32"]
    /\ varint_size("u32", <<255, 255, 255, 0>>) = 4

\* the longest encoding of a type
MaxEncodedLen(ty) ==
    CASE SizeOf(ty) = 1 -> 2
      [] SizeOf(ty) = 2 -> 3
      [] SizeOf(ty) = 4 -> 5
      [] SizeOf(ty) = 8 -> 9
      [] SizeOf(ty) = 16 -> 17

NThreads == 2

Threads == 1..NThreads

\* the sources read: nothing, one byte, a two-byte class, a prefix without
\* its payload
ConcSources == {<<>>, <<44>>, <<242, 5>>, <<248>>}

\* the calls a thread can make, each with the sink or source it owns
ConcCalls ==
    UNION {{[op |-> "write", ty |-> ty, val |-> v, io |-> <<>>] :
               v \in StreamValues(ty)} : ty \in {"u8", "i16", "u128"}}
    \cup {[op |-> "read", ty |-> ty, val |-> <<>>, io |-> src] :
             ty \in {"u8", "u128"}, src \in ConcSources}

\* what a call has returned: nothing yet, Ok(n) of a write, Ok(v) of a
\* read, an error or a panic
Returned(kind, v, n) == [kind |-> kind, val |-> v, n |-> n]

\* the frame of call c before its first step
StartFrame(c) ==
    [pc |-> "start", op |-> c.op, ty |-> c.ty, val |-> c.val, size |-> 0,
     buf |-> <<>>, io |-> c.io, at |-> 0, ret |-> Returned("None", <<>>, 0)]

\* one buffer for every call, as a `static mut` array would be
SharedStaticBuf(t) == 1

\* the frame that holds the buf of thread t's call: its own, buf is a local
BufOf(t) == t

ConcInit ==
    /\ frames \in [Threads -> {StartFrame(c) : c \in ConcCalls}]
    /\ data = <<>>
    /\ pos = 0
    /\ sink = "vec"
    /\ api = "trait"
    /\ overflow_checks \in BOOLEAN
    /\ log = <<>>

\* let size = v.varint_size();
ComputeSize ==
    /\ \E t \in Threads :
          /\ frames[t].pc = "start" /\ frames[t].op = "write"
          /\ frames' = [frames EXCEPT
                           ![t].size = varint_size(frames[t].ty, frames[t].val),
                           ![t].pc = "fill"]
    /\ UNCHANGED <<data, pos, sink, overflow_checks, api, log>>

\* match size { .. }: the arms fill buf, or the call panics
FillBuffer ==
    /\ \E t \in Threads :
          /\ frames[t].pc = "fill"
          /\ LET e == write_varint(frames[t].ty, frames[t].val)
             IN  frames' =
                    IF e.kind = "Panic"
                    THEN [frames EXCEPT ![t].ret = Returned("Panic", <<>>, 0),
                                        ![t].pc = "done"]
                    ELSE [[frames EXCEPT ![BufOf(t)].buf = e.bytes]
                             EXCEPT ![t].pc = "write"]
    /\ UNCHANGED <<data, pos, sink, overflow_checks, api, log>>

\* self.write(&buf[0..size]) on the thread's Cursor<Vec<u8>>
WriteBuffer ==
    /\ \E t \in Threads :
          /\ frames[t].pc = "write"
          /\ LET s == Slice(frames[BufOf(t)].buf, frames[t].size)
                 f == frames[t]
             IN  frames' =
                    IF s.kind = "Panic"
                    THEN [frames EXCEPT ![t].ret = Returned("Panic", <<>>, 0),
                                        ![t].pc = "done"]
                    ELSE [frames EXCEPT
                             ![t].io = SubSeq(f.io, 1, f.at) \o s.bytes
                                 \o SubSeq(f.io, f.at + Len(s.bytes) + 1, Len(f.io)),
                             ![t].at = f.at + Len(s.bytes),
                             ![t].ret = Returned("Ok", <<>>, Len(s.bytes)),
                             ![t].pc = "done"]
    /\ UNCHANGED <<data, pos, sink, overflow_checks, api, log>>

\* self.read_exact(&mut buf[0..1])?
ReadPrefix ==
    /\ \E t \in Threads :
          /\ frames[t].pc = "start" /\ frames[t].op = "read"
          /\ LET f == frames[t]
             IN  frames' =
                    IF ~CanRead(f.io, f.at, 1)
                    THEN [frames EXCEPT ![t].ret = Returned("Err", <<>>, 0),
                                        ![t].pc = "done"]
                    ELSE [[frames EXCEPT ![BufOf(t)].buf = <<f.io[f.at + 1]>>]
                             EXCEPT ![t].at = f.at + 1, ![t].pc = "payload"]
    /\ UNCHANGED <<data, pos, sink, overflow_checks, api, log>>

\* the rest of read_varint: the match on buf[0], the read_exact of the
\* payload from the thread's source and the value
ReadPayload ==
    /\ \E t \in Threads :
          /\ frames[t].pc = "payload"
          /\ LET f == frames[t]
                 b == frames[BufOf(t)].buf
                 r == read_varint(f.ty, SubSeq(b, 1, 1)
                                     \o SubSeq(f.io, f.at + 1, Len(f.io)), 0)
             IN  frames' = [frames EXCEPT
                               ![t].ret = Returned(r.kind, r.val, 0),
                               ![t].at = f.at + r.pos - 1,
                               ![t].pc = "done"]
    /\ UNCHANGED <<data, pos, sink, overflow_checks, api, log>>

ConcNext == ComputeSize \/ FillBuffer \/ WriteBuffer \/ ReadPrefix \/ ReadPayload

ConcSpec == ConcInit /\ [][ConcNext]_vars

\* C20: call independence under interleaving.  Whatever the order of the
\* steps of the calls, a write_varint call that has returned left in its
\* sink the bytes and returned the count it gives when run alone, and a
\* read_varint call that has returned gave the result and left its source
\* where it does when run alone.
C20_CallIndependence ==
    \A t \in DOMAIN frames :
        frames[t].pc = "done" =>
            LET f == frames[t]
            IN  IF f.op = "write"
                THEN LET e == write_varint(f.ty, f.val)
                     IN  IF e.kind = "Panic"
                         THEN f.ret.kind = "Panic" /\ f.io = <<>>
                         ELSE /\ f.ret = Returned("Ok", <<>>, Len(e.bytes))
                              /\ f.io = e.bytes
                ELSE LET r == read_varint(f.ty, f.io, 0)
                     IN  /\ f.ret.kind = r.kind
                         /\ f.ret.val = r.val
                         /\ r.kind = "Ok" => f.at = r.pos

\* thread 1 read [242, 5] to the end between the step of thread 2 that
\* filled its buffer with the 17 bytes of u128::MAX and the step that
\* writes them
C20_Witness ==
    /\ DOMAIN frames = Threads
    /\ frames[1].pc = "done" /\ frames[1].op = "read"
    /\ frames[1].io = <<242, 5>> /\ frames[1].ret.kind = "Ok"
    /\ frames[2].pc = "write" /\ frames[2].ty = "u128" /\ frames[2].size = 17

\* C21: decode frame.  A read_varint that returns Ok has taken from the
\* source exactly the bytes its prefix p alone determines (1 for p <= 240,
\* 2 for 241..247, 3 for 248, p - 245 for 249..254, 17 for 255): the source
\* is left right after them with every later byte unread, and after a
\* prefix p <= 240 right after the prefix.
C21_DecodeFrame ==
    \A i \in 1..Len(log) :
        (log[i].op = "read" /\ log[i].from = 0 /\ log[i].kind = "Ok")
          => /\ log[i].to = 1 + PayloadLen(Prefix)
             /\ pos = log[i].to
             /\ Prefix <= 240 => pos = 1
             /\ log[i].len1 = log[i].len0

\* 240 was read at i64 from a source of 18 bytes, 17 of them left unread
C21_Witness ==
    /\ Len(log) = 1 /\ Len(data) = 18
    /\ Prefix = 240
    /\ log[1].op = "read" /\ log[1].ty = "i64" /\ log[1].kind = "Ok"
    /\ pos = 1

\* entry i of the log writes an unsigned value to the start of the sink,
\* entry i + 1 rewinds and entry i + 2 reads at an unsigned type
CrossWidthAt(i) ==
    /\ i >= 1 /\ i + 2 <= Len(log)
    /\ UnsignedWrite(i) /\ log[i].from = 0
    /\ log[i + 1].op = "rewind"
    /\ log[i + 2].op = "read" /\ log[i + 2].ty \in UnsignedTypes

\* C22: cross-width wire compatibility.  A magnitude m written at an
\* unsigned width leaves the bytes write_varint emits for m at every other
\* unsigned width that holds m, and read_varint at any unsigned width that
\* holds m reads those bytes back as m.
C22_CrossWidthCompatible ==
    \A i \in LastCall :
        /\ UnsignedWrite(i) =>
              \A ty \in UnsignedTypes :
                  SigBytes(log[i].val) <= SizeOf(ty) =>
                      Encoded(i) = write_varint(ty, Resize(log[i].val, SizeOf(ty))).bytes
        /\ (CrossWidthAt(i - 2) /\ SigBytes(log[i - 2].val) <= SizeOf(log[i].ty)) =>
              /\ log[i].kind = "Ok"
              /\ log[i].val = Resize(log[i - 2].val, SizeOf(log[i].ty))

\* 2^24 written at u32 as [250, 0, 0, 0, 1] was read back at u128, and 255
\* written at u64 is read back at u8 in another run
C22_Witness ==
    /\ CrossWidthAt(1) /\ Len(log) = 3
    /\ log[1].ty = "u32" /\ log[1].val = <<0, 0, 0, 1>>
    /\ log[3].ty = "u128" /\ log[3].kind = "Ok"
    /\ log[3].val = Resize(<<0, 0, 0, 1>>, 16)

\* the sizes the match of a width's write_varint has an arm for
MatchArms(ty) ==
    CASE SizeOf(ty) = 1 -> 1..2
      [] SizeOf(ty) = 2 -> 1..3
      [] SizeOf(ty) = 4 -> 1..5
      [] SizeOf(ty) = 8 -> 1..9
      [] SizeOf(ty) = 16 -> (1..9) \cup {17}

\* the unsigned value the encoder of call i is given
Magnitude(i) ==
    IF log[i].ty \in SignedTypes THEN ZigzagOf(log[i].val) ELSE log[i].val

\* C23: the encoder never faults.  At every width and for every value, in
\* debug and release builds, write_varint returns without a panic: the size
\* varint_size computes has an arm in the match, is at most the length of
\* the width's buffer (2, 3, 5, 9, 17), and v - 240 and v - 2032 are only
\* computed for v >= 240 and v >= 2032.
C23_EncoderNeverFaults ==
    \A i \in LastCall :
        log[i].op = "write" =>
            /\ log[i].kind = "Ok"
            /\ log[i].hint \in MatchArms(log[i].ty)
            /\ log[i].hint <= MaxEncodedLen(log[i].ty)
            /\ log[i].hint = 2 => ~SubOverflows(Magnitude(i), Lit(240))
            /\ log[i].hint = 3 => ~SubOverflows(Magnitude(i), Lit(2032))

\* in a debug build 241 was written at u8 through the arm that computes
\* v - 240
C23_Witness ==
    /\ overflow_checks
    /\ Len(log) >= 1
    /\ log[1].op = "write" /\ log[1].ty = "u8" /\ log[1].val = <<241>>
    /\ log[1].kind = "Ok" /\ log[1].hint = 2
    /\ Encoded(1) = <<241, 1>>

\* ------------------------------------------------------------------------
\* varuint.rs: the standalone Varuint(u128) / Varint(i128) codec
\* ------------------------------------------------------------------------

\* Serializable for Varuint: size_hint
Varuint_size_hint(v) ==
    IF Le(v, Lit(240)) THEN 1
    ELSE IF Le(v, Lit(2031)) THEN 2
    ELSE IF Le(v, Lit(67567)) THEN 3
    ELSE IF Le(v, Lit(16777215)) THEN 4
    ELSE IF Le(v, Ones(4)) THEN 5
    ELSE IF Le(v, Ones(5)) THEN 6
    ELSE IF Le(v, Ones(6)) THEN 7
    ELSE IF Le(v, Ones(7)) THEN 8
    ELSE IF Le(v, Ones(8)) THEN 9
    ELSE 17

\* write_value(&mut buf[1..], v, size): buf[i] = (v >> (8 * i)) as u8
Varuint_write_value(v, size) == [i \in 1..size |-> Dig(v, i)]

\* ptr::copy_nonoverlapping(&v as *const uK, &mut buf[1] as *mut u8 as
\* *mut uK, 1), and the same copy out of &buf[1] into a uK: one uK of k
\* bytes is copied through a pointer into the byte array that is aligned
\* for uK only where the array happens to lie so.  The copy of a misaligned
\* uK is undefined: a build copies the k bytes, or stops at the copy (the
\* pointer checks of a debug build, the trap of a target without unaligned
\* access).  fault tells which.
Varuint_copy(bytes, k, fault) ==
    IF fault THEN <<>> ELSE SubSeq(bytes, 1, k)

\* Varuint::serialize_buf on buf: [u8; 17]: the bytes assigned, <<>> when
\* the call does not return
Varuint_serialize_buf(v, fault) ==
    LET size == Varuint_size_hint(v)
        d240 == WrappingSub(v, Lit(240))
        d2032 == WrappingSub(v, Lit(2032))
    IN  CASE size = 1 -> <<v[1]>>
          [] size = 2 ->
                IF SubPanics(v, Lit(240)) THEN <<>>
                ELSE <<(Dig(Div256(d240), 1) + 241) % 256, Dig(d240, 1)>>
          [] size = 3 ->
                IF SubPanics(v, Lit(2032)) THEN <<>>
                ELSE <<248, Dig(Div256(d2032), 1), Dig(d2032, 1)>>
          [] size = 4 -> <<249>> \o Varuint_write_value(v, 3)
          [] size = 5 -> IF fault THEN <<>> ELSE <<250>> \o Varuint_copy(v, 4, fault)
          [] size = 6 -> <<251>> \o Varuint_write_value(v, 5)
          [] size = 7 -> <<252>> \o Varuint_write_value(v, 6)
          [] size = 8 -> <<253>> \o Varuint_write_value(v, 7)
          [] size = 9 -> IF fault THEN <<>> ELSE <<254>> \o Varuint_copy(v, 8, fault)
          [] size = 17 -> IF fault THEN <<>> ELSE <<255>> \o Varuint_copy(v, 16, fault)
          [] OTHER -> <<>>

\* Serializable for Varuint: serialize up to its call of Write::write
Varuint_serialize(v, fault) ==
    LET bytes == Varuint_serialize_buf(v, fault)
    IN  IF bytes = <<>> THEN Panicked
        ELSE Slice(Buffer(17, bytes), Varuint_size_hint(v))

\* read_value(&buf[1..], size): v |= (buf[i] as u128) << (8 * i)
Varuint_read_value(bytes, size) == Resize(SubSeq(bytes, 1, size), 16)

\* Deserializable for Varuint: deserialize
Varuint_deserialize(src, p, fault) ==
    IF ~CanRead(src, p, 1) THEN ReadEof(p)
    ELSE LET b0 == src[p + 1]
             length == CASE b0 <= 240 -> 1
                         [] b0 \in 241..247 -> 2
                         [] b0 = 248 -> 3
                         [] b0 = 249 -> 4
                         [] b0 = 250 -> 5
                         [] b0 = 251 -> 6
                         [] b0 = 252 -> 7
                         [] b0 = 253 -> 8
                         [] b0 = 254 -> 9
                         [] b0 = 255 -> 17
             buf == BufRead(src, p, length)
             rest == SubSeq(buf, 2, length)
         IN  IF length = 1 THEN ReadOk(FromNat(b0, 16), p + 1)
             ELSE IF ~CanRead(src, p + 1, length - 1) THEN ReadEof(p + 1)
             ELSE CASE length = 2 ->
                         Arith(240 + 256 * (B(buf, 0) - 241) + B(buf, 1), 16, p + length)
                    [] length = 3 ->
                         Arith(2032 + 256 * B(buf, 1) + B(buf, 2), 16, p + length)
                    [] length \in {4, 6, 7, 8} ->
                         ReadOk(Varuint_read_value(rest, length - 1), p + length)
                    [] length \in {5, 9, 17} ->
                         IF fault THEN ReadPanic(p + length)
                         ELSE ReadOk(Resize(Varuint_copy(rest, length - 1, fault), 16),
                                     p + length)
                    [] OTHER -> ReadPanic(p + length)

\* varuint.rs varint_to_varuint: ((v << 1) ^ (v >> 127)) as u128
Varuint_varint_to_varuint(v) == Xor(Shl1(v), SignFill(v))

\* varuint.rs varuint_to_varint: ((v >> 1) as i128) ^ -((v & 1) as i128)
Varuint_varuint_to_varint(v) == Xor(Shr1(v), NegLowBit(v))

\* size_hint of Varuint (ty "u128") and of the Varint(i128) of varuint.rs
\* (ty "i128")
Legacy_size_hint(ty, v) ==
    IF ty = "i128" THEN Varuint_size_hint(Varuint_varint_to_varuint(v))
    ELSE Varuint_size_hint(v)

\* serialize of Varuint and of Varint
Legacy_serialize(ty, v, fault) ==
    IF ty = "i128" THEN Varuint_serialize(Varuint_varint_to_varuint(v), fault)
    ELSE Varuint_serialize(v, fault)

\* deserialize of Varuint and of Varint:
\* Ok(Varint(varuint_to_varint(*Varuint::deserialize(r)?)))
Legacy_deserialize(ty, src, p, fault) ==
    LET r == Varuint_deserialize(src, p, fault)
    IN  IF ty = "i128" /\ r.kind = "Ok"
        THEN ReadOk(Varuint_varuint_to_varint(r.val), r.pos)
        ELSE r

\* ------------------------------------------------------------------------
\* test_varuint / test_varint of varuint.rs: a value serialized into an
\* uninitialized [u8; 17] and deserialized from its start, and deserialize
\* on bytes that did not come from serialize
\* ------------------------------------------------------------------------

\* let mut arr: [u8; 17] = unsafe { mem::uninitialized() }
UninitArr == [i \in 1..17 |-> Uninit]

\* Varuint is the codec of u128, the Varint of varuint.rs that of i128
LegacyTypes == {"u128", "i128"}

LegacyInit ==
    /\ data \in {UninitArr} \cup Inputs
    /\ pos = 0
    /\ sink = "slice"
    /\ api = "legacy"
    /\ overflow_checks \in BOOLEAN
    /\ log = <<>>
    /\ frames = <<>>

\* v.size_hint() and v.serialize(&mut buf) on buf = &mut arr
LegacyWrite ==
    /\ log = <<>>
    /\ data = UninitArr
    /\ \E ty \in LegacyTypes : \E v \in Values(ty) : \E fault \in BOOLEAN :
          LET e == Legacy_serialize(ty, v, fault)
              hint == Legacy_size_hint(ty, v)
              amt == WriteAmount(Len(e.bytes))
          IN  IF e.kind = "Panic"
              THEN /\ log' = Append(log, Call("write", ty, v, "Panic", 0, hint,
                                              pos, pos, Len(data), Len(data)))
                   /\ UNCHANGED <<data, pos>>
              ELSE /\ data' = Written(e.bytes, amt)
                   /\ pos' = pos + amt
                   /\ log' = Append(log, Call("write", ty, v, "Ok", amt, hint,
                                              pos, pos + amt, Len(data), Len(data')))
    /\ UNCHANGED <<sink, overflow_checks, api, frames>>

\* Varuint::deserialize(read) / Varint::deserialize(read) on read = &arr, or
\* on the bytes given
LegacyRead ==
    /\ Count("read") = 0
    /\ Alive
    /\ data # <<>> => data[1] # Uninit
    /\ \E ty \in LegacyTypes : \E fault \in BOOLEAN :
          LET r == Legacy_deserialize(ty, data, 0, fault)
          IN  \E q \in (IF r.kind = "Err" THEN {r.pos, Len(data)} ELSE {r.pos}) :
                 /\ pos' = q
                 /\ log' = Append(log, Call("read", ty, r.val, r.kind, 0, 0,
                                            0, q, Len(data), Len(data)))
    /\ UNCHANGED <<data, sink, overflow_checks, api, frames>>

LegacyNext == LegacyWrite \/ LegacyRead

LegacySpec == LegacyInit /\ [][LegacyNext]_vars

====
